---- MODULE Spec2Model ----
\* day17: shortest path over a weighted grid under straight-line constraints.
\* Sources: src/day17/src/constraints.rs, board.rs, pathfinding.rs.
EXTENDS Integers, FiniteSets, Sequences, TLC

\* ---------------------------------------------------------------- bounds
MaxCost == 1
MaxStraight == 2

\* Shapes (rows, cols) of the enumerated grids.
GridShapes == {<<1, 3>>, <<2, 2>>}

\* ---------------------------------------------------------------- board.rs
Up == "Up"
Down == "Down"
Left == "Left"
Right == "Right"

Direction == {Up, Down, Left, Right}

\* usize::saturating_sub
saturating_sub(a, b) == IF a > b THEN a - b ELSE 0

\* Rows and columns are 0-based, as in the Vec<Vec<u32>> of the source.
Grid(rows) ==
  [r \in 0..(Len(rows) - 1) |-> [c \in 0..(Len(rows[1]) - 1) |-> rows[r + 1][c + 1]]]

BoardFrom(tiles, constraints) ==
  [nb_rows |-> Cardinality(DOMAIN tiles),
   nb_cols |-> Cardinality(DOMAIN tiles[0]),
   tiles |-> tiles,
   constraints |-> constraints]

\* Mutant: a move past an edge comes back in on the opposite edge.
get_neighbour_tile_wrapping(b, row, col, direction) ==
  CASE direction = Up -> {<<(row + b.nb_rows - 1) % b.nb_rows, col>>}
    [] direction = Down -> {<<(row + 1) % b.nb_rows, col>>}
    [] direction = Left -> {<<row, (col + b.nb_cols - 1) % b.nb_cols>>}
    [] direction = Right -> {<<row, (col + 1) % b.nb_cols>>}

\* Option<(usize, usize)>: the empty set is None, a singleton is Some.
get_neighbour_tile(b, row, col, direction) ==
  CASE direction = Up -> IF row > 0 THEN {<<row - 1, col>>} ELSE {}
    [] direction = Down -> IF row < b.nb_rows - 1 THEN {<<row + 1, col>>} ELSE {}
    [] direction = Left -> IF col > 0 THEN {<<row, col - 1>>} ELSE {}
    [] direction = Right -> IF col < b.nb_cols - 1 THEN {<<row, col + 1>>} ELSE {}

\* Mutant: a move costs the tile of the cell it leaves, not of the cell it enters.
add_neighbour_tile_cost_of_left_cell(b, nbs, from_row, from_col, facing, must_turn_in, can_turn_in) ==
  nbs \cup
    {<<[row |-> t[1], col |-> t[2], facing |-> facing,
        must_turn_in |-> must_turn_in, can_turn_in |-> can_turn_in],
       b.tiles[from_row][from_col]>> : t \in get_neighbour_tile(b, from_row, from_col, facing)}

add_neighbour_tile(b, nbs, from_row, from_col, facing, must_turn_in, can_turn_in) ==
  nbs \cup
    {<<[row |-> t[1], col |-> t[2], facing |-> facing,
        must_turn_in |-> must_turn_in, can_turn_in |-> can_turn_in],
       b.tiles[t[1]][t[2]]>> : t \in get_neighbour_tile(b, from_row, from_col, facing)}

\* Mutant: the match arms are swapped, so a "turn" keeps or reverses the facing.
turn_directions_swapped(facing) ==
  IF facing \in {Up, Down} THEN <<Up, Down>> ELSE <<Left, Right>>

turn_directions(facing) ==
  IF facing \in {Up, Down} THEN <<Left, Right>> ELSE <<Up, Down>>

\* Mutant: after a turn the counters are set as for a seeded state, without
\* counting the cell just entered.
turn_neighbours_full_counters(b, start) ==
  IF start.can_turn_in = 0
  THEN LET td == turn_directions(start.facing)
           first == add_neighbour_tile(b, {}, start.row, start.col, td[1],
                      b.constraints.max_straight_line,
                      b.constraints.min_straight_line)
       IN add_neighbour_tile(b, first, start.row, start.col, td[2],
            b.constraints.max_straight_line,
            b.constraints.min_straight_line)
  ELSE {}

\* Mutant: a turn adds the whole straight-run budget to what was left of it.
turn_neighbours_budget_carried(b, start) ==
  IF start.can_turn_in = 0
  THEN LET td == turn_directions(start.facing)
           first == add_neighbour_tile(b, {}, start.row, start.col, td[1],
                      b.constraints.max_straight_line + start.must_turn_in,
                      saturating_sub(b.constraints.min_straight_line, 1))
       IN add_neighbour_tile(b, first, start.row, start.col, td[2],
            b.constraints.max_straight_line + start.must_turn_in,
            saturating_sub(b.constraints.min_straight_line, 1))
  ELSE {}

\* Mutant: after a turn the two counters are set the wrong way round.
turn_neighbours_counters_swapped(b, start) ==
  IF start.can_turn_in = 0
  THEN LET td == turn_directions(start.facing)
           first == add_neighbour_tile(b, {}, start.row, start.col, td[1],
                      saturating_sub(b.constraints.min_straight_line, 1),
                      b.constraints.max_straight_line - 1)
       IN add_neighbour_tile(b, first, start.row, start.col, td[2],
            saturating_sub(b.constraints.min_straight_line, 1),
            b.constraints.max_straight_line - 1)
  ELSE {}

\* Mutant: a turn is offered whatever can_turn_in is.
turn_neighbours_any_time(b, start) ==
  LET td == turn_directions(start.facing)
      first == add_neighbour_tile(b, {}, start.row, start.col, td[1],
                 b.constraints.max_straight_line - 1,
                 saturating_sub(b.constraints.min_straight_line, 1))
  IN add_neighbour_tile(b, first, start.row, start.col, td[2],
       b.constraints.max_straight_line - 1,
       saturating_sub(b.constraints.min_straight_line, 1))

turn_neighbours(b, start) ==
  IF start.can_turn_in = 0
  THEN LET td == turn_directions(start.facing)
           first == add_neighbour_tile(b, {}, start.row, start.col, td[1],
                      b.constraints.max_straight_line - 1,
                      saturating_sub(b.constraints.min_straight_line, 1))
       IN add_neighbour_tile(b, first, start.row, start.col, td[2],
            b.constraints.max_straight_line - 1,
            saturating_sub(b.constraints.min_straight_line, 1))
  ELSE {}

\* Mutant: going straight does not use up the straight-run budget.
straight_neighbours_keep_budget(b, start) ==
  IF start.must_turn_in > 0
  THEN add_neighbour_tile(b, {}, start.row, start.col, start.facing,
         start.must_turn_in, saturating_sub(start.can_turn_in, 1))
  ELSE {}

\* Mutant: going straight is offered whatever must_turn_in is.
straight_neighbours_no_limit(b, start) ==
  add_neighbour_tile(b, {}, start.row, start.col, start.facing,
    saturating_sub(start.must_turn_in, 1), saturating_sub(start.can_turn_in, 1))

straight_neighbours(b, start) ==
  IF start.must_turn_in > 0
  THEN add_neighbour_tile(b, {}, start.row, start.col, start.facing,
         start.must_turn_in - 1, saturating_sub(start.can_turn_in, 1))
  ELSE {}

\* HashSet<(State, u32)>
get_neighbours(b, start) == turn_neighbours(b, start) \cup straight_neighbours(b, start)

\* ---------------------------------------------------------------- pathfinding.rs
\* PriorityQueue<PathStep, Reverse<u32>>: a set of PathSteps (pushing an equal
\* item again keeps one copy), popped least cost first; ties in any order.
push_all(queue, steps) == queue \cup steps

\* Mutant: any queued step may be popped, not only a least-cost one.
pop_candidates_any_cost(queue) == queue

pop_candidates(queue) == {s \in queue : \A t \in queue : s.cost_to <= t.cost_to}

\* Mutant: the least-cost step is read but left in the queue.
pop_rest_peek(queue, s) == queue

\* The queue that pop leaves behind once step s is taken out.
pop_rest(queue, s) == queue \ {s}

\* Mutant: a state counts as closed once any state at its position is closed.
closed_contains_position(cl, n) == \E c \in cl : c.row = n.row /\ c.col = n.col

\* closed.contains(&neighbour): equality of the whole State.
closed_contains(cl, n) == n \in cl

\* Mutant: the seeded steps carry the counters of a state just turned into.
get_start_steps_as_turned(start, constraints) ==
  {[state |-> [row |-> start[1], col |-> start[2], facing |-> f,
               must_turn_in |-> constraints.max_straight_line - 1,
               can_turn_in |-> saturating_sub(constraints.min_straight_line, 1)],
    cost_to |-> 0] : f \in Direction}

get_start_steps(start, constraints) ==
  {[state |-> [row |-> start[1], col |-> start[2], facing |-> f,
               must_turn_in |-> constraints.max_straight_line,
               can_turn_in |-> constraints.min_straight_line],
    cost_to |-> 0] : f \in Direction}

\* Mutant: the goal test looks at the position only.
is_goal_position_only(s, goal) == <<s.state.row, s.state.col>> = goal

is_goal(s, goal) == <<s.state.row, s.state.col>> = goal /\ s.state.can_turn_in = 0

\* ---------------------------------------------------------------- inputs
CONSTRAINTS_PART_1 == [max_straight_line |-> 3, min_straight_line |-> 0]
CONSTRAINTS_PART_2 == [max_straight_line |-> 10, min_straight_line |-> 4]

GridsOfShape(sh) == [0..(sh[1] - 1) -> [0..(sh[2] - 1) -> 0..MaxCost]]

EnumeratedGrids == UNION {GridsOfShape(sh) : sh \in GridShapes}

\* The grids of the repository's tests: test_tiny, test_twisty, test_force_turn
\* (pathfinding.rs) and get_test_board (board.rs).
TinyGrid == Grid(<<<<1, 1>>, <<1, 1>>>>)
TwistyGrid == Grid(<<<<1, 2, 2>>, <<1, 1, 2>>, <<2, 1, 1>>>>)
ForceTurnGrid == Grid(<<<<1, 1, 1, 1, 1>>, <<6, 6, 6, 6, 6>>>>)
TestBoardGrid == Grid(<<<<1, 2, 3>>, <<4, 5, 6>>, <<7, 8, 9>>>>)

TestGrids == {TinyGrid, TwistyGrid, ForceTurnGrid, TestBoardGrid}

ConstraintPairs ==
  {[max_straight_line |-> mx, min_straight_line |-> mn] :
     mx \in 1..MaxStraight, mn \in 0..(MaxStraight + 1)} \cup {CONSTRAINTS_PART_1}

Cells(tiles) == (DOMAIN tiles) \X (DOMAIN tiles[0])

\* ---------------------------------------------------------------- state
VARIABLES
  board,       \* the Board handed to find_path
  start,       \* (row, col) of the source
  goal,        \* (row, col) of the target
  pc,          \* position in find_path
  open,        \* PathQueue
  closed,      \* HashSet<State>
  step,        \* the PathStep popped last
  neighbours,  \* the value get_neighbours returned last
  result,      \* the returned cost
  run_len,     \* history: state -> lengths of the straight run it was reached by
  turn_runs    \* history: lengths of the straight runs that a turn ended

vars == <<board, start, goal, pc, open, closed, step, neighbours, result, run_len, turn_runs>>

NoStep == [state |-> [row |-> 0, col |-> 0, facing |-> Up,
                      must_turn_in |-> 0, can_turn_in |-> 0], cost_to |-> 0]
NoResult == -1

\* The sources a grid is searched from: every cell, except that the two larger
\* grids of test_find_path are searched from the corner their tests start at.
Sources(t, corner_only) ==
  IF corner_only \/ t \in {TwistyGrid, ForceTurnGrid} THEN {<<0, 0>>} ELSE Cells(t)

InitFrom(corner_only) ==
  /\ \E t \in EnumeratedGrids \cup TestGrids, k \in ConstraintPairs :
       /\ board = BoardFrom(t, k)
       /\ \E s \in Sources(t, corner_only), g \in Cells(t) : start = s /\ goal = g
  /\ pc = "seed"
  /\ open = {}
  /\ closed = {}
  /\ step = NoStep
  /\ neighbours = {}
  /\ result = NoResult
  /\ run_len = <<>>
  /\ turn_runs = {}

Init == InitFrom(FALSE)

\* find_path, lines 49-55: the queue is seeded with the start steps.
Seed ==
  /\ pc = "seed"
  /\ open' = push_all({}, get_start_steps(start, board.constraints))
  /\ run_len' = [s \in {p.state : p \in get_start_steps(start, board.constraints)} |-> {0}]
  /\ pc' = "loop"
  /\ UNCHANGED <<board, start, goal, closed, step, neighbours, result, turn_runs>>

\* PathQueue::pop on an empty queue: expect("No path exists!") panics.
PopEmpty ==
  /\ pc = "loop"
  /\ open = {}
  /\ pc' = "panicked"
  /\ UNCHANGED <<board, start, goal, open, closed, step, neighbours, result, run_len, turn_runs>>

\* One loop iteration that returns: the popped step s is at the goal and may turn.
PopReturnOf(s) ==
  /\ is_goal(s, goal)
  /\ step' = s
  /\ open' = pop_rest(open, s)
  /\ result' = s.cost_to
  /\ neighbours' = {}
  /\ pc' = "returned"
  /\ UNCHANGED <<board, start, goal, closed, run_len, turn_runs>>

PopReturn ==
  /\ pc = "loop"
  /\ \E s \in pop_candidates(open) : PopReturnOf(s)

\* The straight-run lengths of neighbour n when reached from state s.
RunsVia(s, n) == {IF n.facing = s.facing THEN r + 1 ELSE 1 : r \in run_len[s]}

\* One loop iteration that expands the popped step s.
PopExpandOf(s) ==
  /\ ~is_goal(s, goal)
  /\ step' = s
  /\ closed' = closed \cup {s.state}
  /\ neighbours' = get_neighbours(board, s.state)
  /\ LET pushed == {n \in neighbours' : ~closed_contains(closed', n[1])}
     IN /\ open' = push_all(pop_rest(open, s),
                     {[state |-> n[1], cost_to |-> s.cost_to + n[2]] : n \in pushed})
        /\ run_len' =
             [t \in {n[1] : n \in pushed} |->
                (IF t \in DOMAIN run_len THEN run_len[t] ELSE {}) \cup
                RunsVia(s.state, t)] @@ run_len
        /\ turn_runs' = turn_runs \cup
             (IF \E n \in pushed : n[1].facing # s.state.facing
              THEN run_len[s.state] ELSE {})
  /\ pc' = "loop"
  /\ UNCHANGED <<board, start, goal, result>>

PopExpand ==
  /\ pc = "loop"
  /\ \E s \in pop_candidates(open) : PopExpandOf(s)

Next == Seed \/ PopEmpty \/ PopReturn \/ PopExpand

Spec == Init /\ [][Next]_vars

\* find_path runs to completion: an enabled loop iteration is eventually taken.
\* The searches start at the top-left cell, as get_distance and the tests do.
FairInit == InitFrom(TRUE)

FairSpec == FairInit /\ [][Next]_vars /\ WF_vars(Next)

\* ---------------------------------------------------------------- get_neighbours alone
\* get_neighbours applied to any State of any enumerated board.
CounterValues == 0..(MaxStraight + 2)

InitNeighbours ==
  /\ \E t \in EnumeratedGrids \cup TestGrids, k \in ConstraintPairs :
       /\ board = BoardFrom(t, k)
       /\ \E c \in Cells(t), f \in Direction, m \in CounterValues, n \in CounterValues :
            /\ step = [state |-> [row |-> c[1], col |-> c[2], facing |-> f,
                                  must_turn_in |-> m, can_turn_in |-> n],
                       cost_to |-> 0]
            /\ start = c
            /\ goal = c
  /\ pc = "get_neighbours"
  /\ open = {}
  /\ closed = {}
  /\ neighbours = {}
  /\ result = NoResult
  /\ run_len = <<>>
  /\ turn_runs = {}

GetNeighbours ==
  /\ pc = "get_neighbours"
  /\ neighbours' = get_neighbours(board, step.state)
  /\ pc' = "got_neighbours"
  /\ UNCHANGED <<board, start, goal, open, closed, step, result, run_len, turn_runs>>

NextNeighbours == GetNeighbours

SpecNeighbours == InitNeighbours /\ [][NextNeighbours]_vars

\* ---------------------------------------------------------------- find_path as a function
\* The loop of find_path, lines 58-76, run to its end: the cost returned, or
\* NoResult when pop panics on an empty queue. Among equal least-cost steps one
\* fixed step is popped.
RECURSIVE find_path_loop(_, _, _, _)
find_path_loop(b, g, queue, cl) ==
  IF queue = {} THEN NoResult
  ELSE LET s == CHOOSE s \in pop_candidates(queue) : TRUE
       IN IF is_goal(s, g) THEN s.cost_to
          ELSE LET cl2 == cl \cup {s.state}
                   pushed == {[state |-> n[1], cost_to |-> s.cost_to + n[2]] :
                                n \in {n \in get_neighbours(b, s.state) :
                                         ~closed_contains(cl2, n[1])}}
               IN find_path_loop(b, g, push_all(pop_rest(queue, s), pushed), cl2)

find_path(b, st, g) ==
  find_path_loop(b, g, push_all({}, get_start_steps(st, b.constraints)), {})

\* One call of find_path, from its inputs to its outcome.
FindPath ==
  /\ pc = "seed"
  /\ result' = find_path(board, start, goal)
  /\ pc' = IF result' = NoResult THEN "panicked" ELSE "returned"
  /\ UNCHANGED <<board, start, goal, open, closed, step, neighbours, run_len, turn_runs>>

NextFindPath == FindPath

SpecFindPath == Init /\ [][NextFindPath]_vars

\* ---------------------------------------------------------------- get_distance on the sample
\* The sample grid of the puzzle (input_sample.txt), 13 rows of 13 digits.
SampleGrid ==
  Grid(<<<<2, 4, 1, 3, 4, 3, 2, 3, 1, 1, 3, 2, 3>>,
         <<3, 2, 1, 5, 4, 5, 3, 5, 3, 5, 6, 2, 3>>,
         <<3, 2, 5, 5, 2, 4, 5, 6, 5, 4, 2, 5, 4>>,
         <<3, 4, 4, 6, 5, 8, 5, 8, 4, 5, 4, 5, 2>>,
         <<4, 5, 4, 6, 6, 5, 7, 8, 6, 7, 5, 3, 6>>,
         <<1, 4, 3, 8, 5, 9, 8, 7, 9, 8, 4, 5, 4>>,
         <<4, 4, 5, 7, 8, 7, 6, 9, 8, 7, 7, 6, 6>>,
         <<3, 6, 3, 7, 8, 7, 7, 9, 7, 9, 6, 5, 3>>,
         <<4, 6, 5, 4, 9, 6, 7, 9, 8, 6, 8, 8, 7>>,
         <<4, 5, 6, 4, 6, 7, 9, 9, 8, 6, 4, 5, 3>>,
         <<1, 2, 2, 4, 6, 8, 6, 8, 6, 5, 5, 6, 3>>,
         <<2, 5, 4, 6, 5, 4, 8, 8, 8, 7, 7, 3, 5>>,
         <<4, 3, 2, 2, 6, 7, 4, 6, 5, 5, 5, 3, 3>>>>)

\* get_distance_part_1 and get_distance_part_2: from the top-left cell to the
\* bottom-right cell of the parsed grid.
InitSample ==
  /\ \E k \in {CONSTRAINTS_PART_1, CONSTRAINTS_PART_2} : board = BoardFrom(SampleGrid, k)
  /\ start = <<0, 0>>
  /\ goal = <<board.nb_rows - 1, board.nb_cols - 1>>
  /\ pc = "seed"
  /\ open = {}
  /\ closed = {}
  /\ step = NoStep
  /\ neighbours = {}
  /\ result = NoResult
  /\ run_len = <<>>
  /\ turn_runs = {}

\* The step this run's queue pops: one fixed step among the least-cost ones.
popped_first(queue) == CHOOSE s \in pop_candidates(queue) : TRUE

PopReturnFirst ==
  /\ pc = "loop"
  /\ open # {}
  /\ \E s \in {popped_first(open)} : PopReturnOf(s)

PopExpandFirst ==
  /\ pc = "loop"
  /\ open # {}
  /\ \E s \in {popped_first(open)} : PopExpandOf(s)

NextSample == Seed \/ PopReturnFirst \/ PopExpandFirst

SpecSample == InitSample /\ [][NextSample]_vars

\* ---------------------------------------------------------------- reference definitions
\* The pairs <<state, total cost>>, total cost at most cap, that end a sequence
\* of legal transitions (get_neighbours) from a seeded initial state. Tile costs
\* are non-negative, so every prefix of a sequence within cap is within cap.
RECURSIVE Extend(_, _, _, _)
Extend(b, seen, new, cap) ==
  IF new = {} THEN seen
  ELSE LET nxt == {q \in UNION {{<<n[1], p[2] + n[2]>> : n \in get_neighbours(b, p[1])} :
                                 p \in new} : q[2] <= cap} \ seen
       IN Extend(b, seen \cup nxt, nxt, cap)

PathEnds(b, st, cap) ==
  LET seeds == {<<p.state, 0>> : p \in get_start_steps(st, b.constraints)}
  IN Extend(b, seeds, seeds, cap)

AtGoal(s, g) == <<s.row, s.col>> = g /\ s.can_turn_in = 0

\* The total costs, at most cap, of the legal sequences that end in an acceptable goal state.
GoalCosts(b, st, g, cap) == {q[2] : q \in {e \in PathEnds(b, st, cap) : AtGoal(e[1], g)}}

\* The states that some sequence of legal transitions from a seeded state ends in.
RECURSIVE Reach(_, _, _)
Reach(b, seen, new) ==
  IF new = {} THEN seen
  ELSE LET nxt == UNION {{n[1] : n \in get_neighbours(b, s)} : s \in new} \ seen
       IN Reach(b, seen \cup nxt, nxt)

ReachableStates(b, st) ==
  LET seeds == {p.state : p \in get_start_steps(st, b.constraints)}
  IN Reach(b, seeds, seeds)

GoalReachable == \E s \in ReachableStates(board, start) : AtGoal(s, goal)

MinOf(S) == CHOOSE x \in S : \A y \in S : x <= y

IsInput(tiles, constraints, st, g) ==
  board.tiles = tiles /\ board.constraints = constraints /\ start = st /\ goal = g

\* ---------------------------------------------------------------- claims
\* C1: the value find_path returns is the minimum, over all sequences of legal
\* transitions from a seeded initial state to a state at the target with
\* can_turn_in = 0, of the sum of the entered tiles; on the 2x2 grid of ones
\* (max 3, min 0) from (0,0) to (1,1) it is 2.
C1_ReturnsMinimum ==
  /\ pc = "returned" =>
        LET costs == GoalCosts(board, start, goal, result)
        IN costs # {} /\ result = MinOf(costs)
  /\ pc = "returned" /\ IsInput(TinyGrid, CONSTRAINTS_PART_1, <<0, 0>>, <<1, 1>>) => result = 2

\* A search has returned a positive cost while a dearer step at the goal was still queued.
C1_Witness ==
  /\ pc = "returned"
  /\ result > 0
  /\ \E p \in open : is_goal(p, goal) /\ p.cost_to > result

\* C2: along every sequence of transitions explored from a seeded initial state
\* the mover never makes more than max_straight_line consecutive moves in one
\* facing; on the 2x5 grid with a row of ones above a row of sixes (max 3, min 0)
\* the cost returned from (0,0) to (0,4) is the detour cost 4 + 2 * 6.
C2_MaxStraightLine ==
  /\ \A s \in DOMAIN run_len : \A r \in run_len[s] : r <= board.constraints.max_straight_line
  /\ pc = "returned" /\ IsInput(ForceTurnGrid, CONSTRAINTS_PART_1, <<0, 0>>, <<0, 4>>) =>
       result = 4 + 2 * 6

\* The forced-turn search has returned, and it expanded a state that had used up
\* its whole straight run with the next cell ahead still inside the grid.
C2_Witness ==
  /\ pc = "returned"
  /\ IsInput(ForceTurnGrid, CONSTRAINTS_PART_1, <<0, 0>>, <<0, 4>>)
  /\ \E s \in closed :
       /\ board.constraints.max_straight_line \in run_len[s]
       /\ get_neighbour_tile(board, s.row, s.col, s.facing) # {}

\* C3: along every explored sequence of transitions, a turn happens, and the
\* search stops at the target, only after at least min_straight_line consecutive
\* cells were traversed in the current facing (the first run included).
C3_MinStraightLine ==
  /\ \A r \in turn_runs : r >= board.constraints.min_straight_line
  /\ pc = "returned" =>
       \A r \in run_len[step.state] : r >= board.constraints.min_straight_line

\* A search with a minimum run of two cells or more has turned and then returned.
C3_Witness ==
  /\ pc = "returned"
  /\ board.constraints.min_straight_line >= 2
  /\ turn_runs # {}
  /\ \E s \in closed : s.can_turn_in > 0 /\ s.must_turn_in < board.constraints.max_straight_line

Opposite(facing) ==
  CASE facing = Up -> Down
    [] facing = Down -> Up
    [] facing = Left -> Right
    [] facing = Right -> Left

\* C4: no state returned by get_neighbours has the facing opposite to the facing
\* of the state it was asked about.
C4_NoReversal ==
  \A n \in neighbours : n[1].facing # Opposite(step.state.facing)

\* get_neighbours has returned three candidates, one straight and two turns.
C4_Witness ==
  /\ pc = "got_neighbours"
  /\ Cardinality(neighbours) = 3
  /\ get_neighbour_tile(board, step.state.row, step.state.col, Opposite(step.state.facing)) # {}

\* C5: find_path returns only a step whose position is the target and whose
\* can_turn_in is 0, and returns that step's cost; a popped step at the target
\* with can_turn_in > 0 is not returned but closed and expanded.
C5_GoalCondition ==
  /\ pc = "returned" =>
       /\ <<step.state.row, step.state.col>> = goal
       /\ step.state.can_turn_in = 0
       /\ result = step.cost_to
  /\ pc = "loop" /\ closed # {} =>
       /\ step.state \in closed
       /\ neighbours = get_neighbours(board, step.state)
       /\ result = NoResult

\* The step popped last is at the target but may not stop there; it was expanded.
C5_Witness ==
  /\ pc = "loop"
  /\ <<step.state.row, step.state.col>> = goal
  /\ step.state.can_turn_in > 0
  /\ step.state \in closed
  /\ neighbours # {}

Finished == pc \in {"returned", "panicked"}

C7_Terminates == <>Finished

\* A search over a grid with a zero-cost tile has finished after closing at
\* least eight states.
C7_Witness ==
  /\ Finished
  /\ \E c \in Cells(board.tiles) : board.tiles[c[1]][c[2]] = 0
  /\ Cardinality(closed) >= 8

\* C8: find_path fails only if no legal path exists: whenever some sequence of
\* legal transitions reaches an acceptable goal state, the queue is not found
\* empty at a pop and the search does not panic.
C8_FailsOnlyIfUnreachable ==
  (pc = "panicked" \/ (pc = "loop" /\ open = {})) => ~GoalReachable

\* A search has returned a positive cost by popping the very last queued step.
C8_Witness ==
  /\ pc = "returned"
  /\ result > 0
  /\ open = {}

\* The cell one step from state s in facing f, by coordinates.
Ahead(s, f) ==
  CASE f = Up -> <<s.row - 1, s.col>>
    [] f = Down -> <<s.row + 1, s.col>>
    [] f = Left -> <<s.row, s.col - 1>>
    [] f = Right -> <<s.row, s.col + 1>>

InBounds(b, c) == c[1] \in 0..(b.nb_rows - 1) /\ c[2] \in 0..(b.nb_cols - 1)

Perpendicular(f) == IF f \in {Up, Down} THEN {Left, Right} ELSE {Up, Down}

\* The candidates of the last get_neighbours call that face f.
Candidates(f) == {n \in neighbours : n[1].facing = f}

\* The one candidate expected in facing f, with the given counters.
Expected(s, f, must, can) ==
  LET c == Ahead(s, f)
  IN <<[row |-> c[1], col |-> c[2], facing |-> f, must_turn_in |-> must, can_turn_in |-> can],
       board.tiles[c[1]][c[2]]>>

LesserOf(a, b) == IF a <= b THEN a ELSE b
MinusOneOrZero(a) == IF a >= 1 THEN a - 1 ELSE 0

\* The turn branch with the new can_turn_in given: one candidate per perpendicular
\* facing with a cell in bounds when can_turn_in = 0, none when can_turn_in > 0.
TurnBranch(can) ==
  pc = "got_neighbours" =>
    \A f \in Perpendicular(step.state.facing) :
      IF step.state.can_turn_in = 0 /\ InBounds(board, Ahead(step.state, f))
      THEN Candidates(f) =
             {Expected(step.state, f, board.constraints.max_straight_line - 1, can)}
      ELSE Candidates(f) = {}

C10_StraightBranch ==
  pc = "got_neighbours" =>
    IF step.state.must_turn_in > 0 /\ InBounds(board, Ahead(step.state, step.state.facing))
    THEN Candidates(step.state.facing) =
           {Expected(step.state, step.state.facing, step.state.must_turn_in - 1,
                     MinusOneOrZero(step.state.can_turn_in))}
    ELSE Candidates(step.state.facing) = {}

\* get_neighbours has returned the straight continuation alone, for a state
\* that may not turn yet.
C10_Witness ==
  /\ pc = "got_neighbours"
  /\ step.state.must_turn_in > 1
  /\ step.state.can_turn_in > 1
  /\ Cardinality(neighbours) = 1
  /\ Cardinality(Candidates(step.state.facing)) = 1

\* The perpendicular facings of the expanded state whose cell is in bounds.
TurnsInBounds == {f \in Perpendicular(step.state.facing) : InBounds(board, Ahead(step.state, f))}

StraightInBounds == InBounds(board, Ahead(step.state, step.state.facing))

IsTurn(n) == n[1].facing \in Perpendicular(step.state.facing)
IsStraight(n) == n[1].facing = step.state.facing

\* C11 as stated: with can_turn_in = 0 and must_turn_in > 0 there are up to
\* three candidates, with can_turn_in = 0 and must_turn_in = 0 exactly the two
\* turns, with can_turn_in > 0 exactly the one straight continuation.
C11_CountsAsStated ==
  pc = "got_neighbours" =>
    /\ step.state.can_turn_in = 0 /\ step.state.must_turn_in > 0 =>
         Cardinality(neighbours) <= 3
    /\ step.state.can_turn_in = 0 /\ step.state.must_turn_in = 0 =>
         Cardinality(neighbours) = 2 /\ \A n \in neighbours : IsTurn(n)
    /\ step.state.can_turn_in > 0 =>
         Cardinality(neighbours) = 1 /\ \A n \in neighbours : IsStraight(n)

\* C11 as amended: with can_turn_in = 0 and must_turn_in > 0 there are up to
\* three candidates (straight and the two turns); with can_turn_in = 0 and
\* must_turn_in = 0 the candidates are turns only, as many as there are
\* perpendicular cells in bounds (two, or fewer at an edge); with
\* can_turn_in > 0 the candidates are straight only: one when must_turn_in > 0
\* and the cell ahead is in bounds, none otherwise.
C11_Counts ==
  pc = "got_neighbours" =>
    /\ step.state.can_turn_in = 0 /\ step.state.must_turn_in > 0 =>
         /\ Cardinality(neighbours) <= 3
         /\ Cardinality(neighbours) =
              Cardinality(TurnsInBounds) + (IF StraightInBounds THEN 1 ELSE 0)
         /\ \A n \in neighbours : IsTurn(n) \/ IsStraight(n)
    /\ step.state.can_turn_in = 0 /\ step.state.must_turn_in = 0 =>
         /\ Cardinality(neighbours) = Cardinality(TurnsInBounds)
         /\ Cardinality(neighbours) <= 2
         /\ \A n \in neighbours : IsTurn(n)
    /\ step.state.can_turn_in > 0 =>
         /\ Cardinality(neighbours) =
              (IF step.state.must_turn_in > 0 /\ StraightInBounds THEN 1 ELSE 0)
         /\ \A n \in neighbours : IsStraight(n)

\* get_neighbours has returned a single turn for a state that must turn, one
\* of whose perpendicular cells is past the edge.
C11_Witness ==
  /\ pc = "got_neighbours"
  /\ step.state.can_turn_in = 0
  /\ step.state.must_turn_in = 0
  /\ Cardinality(TurnsInBounds) = 1
  /\ Cardinality(neighbours) = 1

\* C12: every state get_neighbours yields lies inside the grid, one cell from
\* the start position in the direction of its own facing, and a facing whose
\* cell is past an edge yields no candidate.
C12_OutOfBoundsDropped ==
  pc = "got_neighbours" =>
    /\ \A n \in neighbours :
         /\ InBounds(board, <<n[1].row, n[1].col>>)
         /\ <<n[1].row, n[1].col>> = Ahead(step.state, n[1].facing)
    /\ \A f \in Direction : ~InBounds(board, Ahead(step.state, f)) => Candidates(f) = {}

\* get_neighbours has returned the turn to the right alone for a state in the
\* top left corner facing up that may go straight and turn (test_up_edge).
C12_Witness ==
  /\ pc = "got_neighbours"
  /\ step.state.row = 0 /\ step.state.col = 0 /\ step.state.facing = Up
  /\ step.state.can_turn_in = 0 /\ step.state.must_turn_in > 0
  /\ board.nb_cols > 1
  /\ Cardinality(neighbours) = 1
  /\ Cardinality(Candidates(Right)) = 1

\* The four entries the frontier is seeded with, written out.
SeededEntries ==
  {[state |-> [row |-> start[1], col |-> start[2], facing |-> f,
               must_turn_in |-> board.constraints.max_straight_line,
               can_turn_in |-> board.constraints.min_straight_line],
    cost_to |-> 0] : f \in {Up, Down, Left, Right}}

\* C13: before the first pop, which is in the state the seeding step leaves,
\* the frontier holds exactly four entries, all at the source cell, one per
\* facing, each with must_turn_in = max_straight_line,
\* can_turn_in = min_straight_line and cost 0, and the closed set is empty.
C13_SeededFrontier ==
  [][pc = "seed" =>
       /\ pc' = "loop"
       /\ open' = SeededEntries
       /\ Cardinality(open') = 4
       /\ \A f \in Direction : Cardinality({p \in open' : p.state.facing = f}) = 1
       /\ closed' = {}]_vars

\* The frontier has been seeded under the strict profile's kind of constraints
\* (a minimum run of at least one) and nothing has been popped yet.
C13_Witness ==
  /\ pc = "loop"
  /\ closed = {}
  /\ board.constraints.min_straight_line > 0
  /\ Cardinality(open) = 4

\* The reference search of C14: a mover is at a cell with the facing of its
\* last move ("none" before the first) and the number of consecutive moves made
\* in that facing. It may move to any adjacent cell in bounds, except backwards
\* and except to make more than max_straight_line consecutive moves in one facing.
RefStart(st) == [row |-> st[1], col |-> st[2], facing |-> "none", run |-> 0]

RefMoves(b, s) ==
  {<<[row |-> Ahead(s, f)[1], col |-> Ahead(s, f)[2], facing |-> f,
      run |-> IF f = s.facing THEN s.run + 1 ELSE 1],
     b.tiles[Ahead(s, f)[1]][Ahead(s, f)[2]]>> :
     f \in {d \in Direction :
              /\ InBounds(b, Ahead(s, d))
              /\ s.facing # "none" => d # Opposite(s.facing)
              /\ d = s.facing => s.run + 1 <= b.constraints.max_straight_line}}

\* The (state, cost) ends, of cost at most cap, of the reference's move sequences.
RECURSIVE RefExtend(_, _, _, _)
RefExtend(b, seen, new, cap) ==
  IF new = {} THEN seen
  ELSE LET nxt == {q \in UNION {{<<n[1], p[2] + n[2]>> : n \in RefMoves(b, p[1])} :
                                 p \in new} : q[2] <= cap} \ seen
       IN RefExtend(b, seen \cup nxt, nxt, cap)

RefGoalCosts(b, st, g, cap) ==
  {q[2] : q \in {e \in RefExtend(b, {<<RefStart(st), 0>>}, {<<RefStart(st), 0>>}, cap) :
                   <<e[1].row, e[1].col>> = g}}

RECURSIVE RefReach(_, _, _)
RefReach(b, seen, new) ==
  IF new = {} THEN seen
  ELSE LET nxt == UNION {{n[1] : n \in RefMoves(b, s)} : s \in new} \ seen
       IN RefReach(b, seen \cup nxt, nxt)

RefGoalReachable(b, st, g) ==
  \E s \in RefReach(b, {RefStart(st)}, {RefStart(st)}) : <<s.row, s.col>> = g

\* C14: with min_straight_line = 0 the cost find_path returns is the least cost
\* of the reference search, whose only restrictions are no reversal and at most
\* max_straight_line consecutive moves in one facing; find_path fails exactly
\* when the reference finds no path.
C14_LooseProfileIsReference ==
  board.constraints.min_straight_line = 0 =>
    /\ pc = "returned" =>
         LET costs == RefGoalCosts(board, start, goal, result)
         IN costs # {} /\ result = MinOf(costs)
    /\ pc = "panicked" => ~RefGoalReachable(board, start, goal)

\* find_path has returned, with no minimum run, a cost above that of the
\* straight line along the top row of the test_force_turn grid, which the
\* maximum run forbids.
C14_Witness ==
  /\ pc = "returned"
  /\ board.constraints.min_straight_line = 0
  /\ board.tiles = ForceTurnGrid
  /\ start = <<0, 0>> /\ goal = <<0, 4>>
  /\ result > 4

\* C16: the outcome of find_path is a function of the grid, the constraints,
\* the source and the target alone: in whatever order equal-cost entries are
\* popped, a run returns the cost that the run popping them in one fixed order
\* returns, and fails if and only if that run fails.
C16_ResultIsFunctionOfInputs ==
  /\ pc = "returned" => result = find_path(board, start, goal)
  /\ pc = "panicked" => find_path(board, start, goal) = NoResult

\* The boards that differ from b in one tile, whose cost is larger.
RaisedBoards(b) ==
  {BoardFrom([b.tiles EXCEPT ![c[1]][c[2]] = @ + d], b.constraints) :
     c \in Cells(b.tiles), d \in 1..MaxCost}

\* C15: raising the cost of one tile never lowers the cost find_path returns,
\* and does not turn a returned cost into a failure.
C15_Monotone ==
  pc = "returned" =>
    \A b2 \in RaisedBoards(board) :
      /\ find_path(b2, start, goal) # NoResult
      /\ find_path(b2, start, goal) >= result

\* The boards that differ from b at most in the value of the tile at cell c.
SourceTileChanged(b, c) ==
  {BoardFrom([b.tiles EXCEPT ![c[1]][c[2]] = v], b.constraints) : v \in 0..(MaxCost + 1)}

\* C18 as stated: changing only the source cell's tile value leaves the cost
\* find_path returns unchanged.
C18_SourceTileNeverCounted ==
  pc = "returned" =>
    \A b2 \in SourceTileChanged(board, start) : find_path(b2, start, goal) = result

\* C18 as amended: with min_straight_line = 0, changing only the source
\* cell's tile value leaves the cost find_path returns unchanged; the tile of
\* the source cell is counted only when a path enters that cell again.
C18_SourceTileNotCountedAtStart ==
  pc = "returned" /\ board.constraints.min_straight_line = 0 =>
    \A b2 \in SourceTileChanged(board, start) : find_path(b2, start, goal) = result

\* find_path has returned a positive cost, with no minimum run, for a target
\* other than the source, whose tile is not free.
C18_Witness ==
  /\ pc = "returned"
  /\ board.constraints.min_straight_line = 0
  /\ start # goal
  /\ board.tiles[start[1]][start[2]] > 0
  /\ result > 0

\* find_path has returned the cost of a path that passes a tile which is not
\* free, on a grid where a tile off that path can still be raised.
C15_Witness ==
  /\ pc = "returned"
  /\ result > 0
  /\ start # goal
  /\ \E b2 \in RaisedBoards(board) : find_path(b2, start, goal) > result
  /\ \E b2 \in RaisedBoards(board) : find_path(b2, start, goal) = result

\* The search has returned while another entry of the same cost was in the
\* frontier: the last pop chose among equal-cost entries.
C16_Witness ==
  /\ pc = "returned"
  /\ result > 0
  /\ \E p \in open : p.cost_to = step.cost_to /\ p.state # step.state

InvalidConfiguration(k) ==
  k.min_straight_line > k.max_straight_line \/ k.max_straight_line = 0

\* C17: an invalid configuration is rejected when the Constraints value is
\* constructed, so no search on a board that carries one fails after it has
\* expanded a state.
C17_InvalidConfigurationRejected ==
  ~(InvalidConfiguration(board.constraints) /\ pc = "panicked" /\ closed # {})

\* The states discovered so far: in the closed set or in the frontier.
Discovered == closed \cup {p.state : p \in open}

SeededStates == {p.state : p \in SeededEntries}

\* C19 as stated: every discovered state other than the four seeded ones has
\* must_turn_in <= max_straight_line - 1 and can_turn_in <= min_straight_line - 1.
C19_CounterRangesAsStated ==
  \A s \in Discovered \ SeededStates :
    /\ s.must_turn_in <= board.constraints.max_straight_line - 1
    /\ s.can_turn_in <= board.constraints.min_straight_line - 1

\* C19 as amended: every discovered state other than the four seeded ones has
\* must_turn_in <= max_straight_line - 1 and
\* can_turn_in <= min_straight_line - 1 saturating at 0.
C19_CounterRanges ==
  \A s \in Discovered \ SeededStates :
    /\ s.must_turn_in <= board.constraints.max_straight_line - 1
    /\ s.can_turn_in <= MinusOneOrZero(board.constraints.min_straight_line)

\* With no minimum run, a state entered by a turn and a state entered by
\* going straight are closed.
C19_Witness ==
  /\ board.constraints.min_straight_line = 0
  /\ \E s \in closed \ SeededStates :
       s.must_turn_in = board.constraints.max_straight_line - 1
  /\ \E s \in closed \ SeededStates :
       s.must_turn_in < board.constraints.max_straight_line - 1

\* C20 as stated: the number of discovered states is at most
\* rows x cols x 4 x max_straight_line x min_straight_line.
C20_StateCountAsStated ==
  Cardinality(Discovered) <=
    board.nb_rows * board.nb_cols * 4 * board.constraints.max_straight_line
      * board.constraints.min_straight_line

\* C20 as amended: the number of discovered states is at most
\* rows x cols x 4 x max_straight_line x min_straight_line, with the last
\* factor taken as 1 when min_straight_line = 0.
C20_StateCount ==
  Cardinality(Discovered) <=
    board.nb_rows * board.nb_cols * 4 * board.constraints.max_straight_line
      * (IF board.constraints.min_straight_line = 0 THEN 1
         ELSE board.constraints.min_straight_line)

\* With no minimum run, the search has discovered states beyond the four
\* seeded ones, by turning and by going straight.
C20_Witness ==
  /\ board.constraints.min_straight_line = 0
  /\ Cardinality(Discovered) > 8
  /\ \E s \in Discovered : s.must_turn_in < board.constraints.max_straight_line - 1

\* C21: on the sample grid, from the top-left to the bottom-right cell,
\* find_path returns 102 with max_straight_line = 3, min_straight_line = 0 and
\* 94 with max_straight_line = 10, min_straight_line = 4; it does not fail.
C21_SampleCosts ==
  /\ pc # "panicked"
  /\ pc = "returned" /\ board.constraints = CONSTRAINTS_PART_1 => result = 102
  /\ pc = "returned" /\ board.constraints = CONSTRAINTS_PART_2 => result = 94

\* The search on the sample grid has returned under the strict profile.
C21_Witness ==
  /\ pc = "returned"
  /\ board.tiles = SampleGrid
  /\ board.constraints = CONSTRAINTS_PART_2
  /\ step.state.row = 12 /\ step.state.col = 12

\* A step of find_path that pops: from the loop to the loop or to the return.
\* The popped step is step'.
Pops == pc = "loop" /\ pc' \in {"loop", "returned"}

Expands == pc = "loop" /\ pc' = "loop"

\* C22: a popped state that is already in the closed set is skipped: its
\* neighbours are not enumerated and nothing is pushed for it.
C22_ClosedStateSkipped ==
  [][Expands /\ step'.state \in closed => neighbours' = {} /\ open' \subseteq open]_vars

\* The entries pushed for the neighbours nbs of the popped step s.
EntriesFor(s, nbs) == {[state |-> n[1], cost_to |-> s.cost_to + n[2]] : n \in nbs}

\* C23: when a state is expanded, every neighbour that is not in the closed
\* set is pushed with cost = the popped entry's cost + the entered tile's
\* value, no entry is pushed for a neighbour in the closed set, and the closed
\* set becomes the closed set with the popped state (nothing leaves it and
\* nothing else enters it).
C23_PushRule ==
  [][Expands =>
       /\ closed' = closed \cup {step'.state}
       /\ \A n \in neighbours' :
            /\ n[1] \notin closed' =>
                 [state |-> n[1], cost_to |-> step'.cost_to + board.tiles[n[1].row][n[1].col]]
                   \in open'
            /\ n[1] \in closed' => EntriesFor(step', {n}) \cap (open' \ open) = {}
       /\ open' \ open \subseteq EntriesFor(step', neighbours')
       /\ open \ open' \subseteq {step'}]_vars

\* An expansion has pushed an entry for one neighbour and none for another
\* neighbour, which is closed.
C23_Witness ==
  /\ pc = "loop"
  /\ step.state \in closed
  /\ \E n \in neighbours : n[1] \in closed /\ EntriesFor(step, {n}) \cap open = {}
  /\ \E n \in neighbours : n[1] \notin closed /\ EntriesFor(step, {n}) \subseteq open

SamePosition(a, b) == a.row = b.row /\ a.col = b.col

\* C24: the closed set is keyed on the full state: after an expansion every
\* neighbour is itself closed or is in the frontier, whatever other states at
\* its position are closed, and a search that exhausts the frontier has closed
\* every state that legal transitions reach from the seeded states.
C24_ClosedKeyedOnFullState ==
  /\ pc = "loop" /\ closed # {} =>
       \A n \in neighbours : n[1] \in closed \/ EntriesFor(step, {n}) \subseteq open
  /\ pc = "panicked" => closed = ReachableStates(board, start)

\* Away from the source, two states at one position are closed, and a third
\* state at that position is in the frontier.
C24_Witness ==
  \E a \in closed, b \in closed, p \in open :
    /\ a # b
    /\ SamePosition(a, b) /\ SamePosition(a, p.state)
    /\ <<a.row, a.col>> # start
    /\ p.state \notin closed

\* C25: every pop removes an entry of the frontier whose cost is at most the
\* cost of every other entry in the frontier at that moment.
C25_PopsLeastCost ==
  [][Pops => step' \in open /\ \A t \in open : step'.cost_to <= t.cost_to]_vars

\* The last pop took an entry of positive cost and left a dearer one behind.
C25_Witness ==
  /\ pc = "loop"
  /\ step.cost_to > 0
  /\ \E t \in open : t.cost_to > step.cost_to

\* max(0, min_straight_line - traversed), written out.
CanTurnInAfter(traversed) ==
  IF board.constraints.min_straight_line > traversed
  THEN board.constraints.min_straight_line - traversed
  ELSE 0

\* C26: in every state discovered, can_turn_in =
\* max(0, min_straight_line - (max_straight_line - must_turn_in)), and both
\* counters are determined by the number r of cells traversed in the current
\* facing: must_turn_in = max_straight_line - r, can_turn_in = max(0, min_straight_line - r).
C26_CountersCoupled ==
  /\ \A s \in Discovered :
       s.can_turn_in = CanTurnInAfter(board.constraints.max_straight_line - s.must_turn_in)
  /\ \A s \in DOMAIN run_len : \A r \in run_len[s] :
       /\ s.must_turn_in = board.constraints.max_straight_line - r
       /\ s.can_turn_in = CanTurnInAfter(r)

\* States that may not turn yet and states that may are closed, under a
\* minimum run of two or more.
C26_Witness ==
  /\ board.constraints.min_straight_line >= 2
  /\ \E s \in closed \ SeededStates : s.can_turn_in > 0
  /\ \E s \in closed \ SeededStates : s.can_turn_in = 0

\* The facings the counters of state s allow a move in.
AllowedFacings(s) ==
  (IF s.can_turn_in = 0 THEN Perpendicular(s.facing) ELSE {}) \cup
  (IF s.must_turn_in > 0 THEN {s.facing} ELSE {})

\* C27: when min_straight_line <= max_straight_line, no discovered state has
\* can_turn_in > 0 together with must_turn_in = 0: its counters allow a move,
\* and it has no neighbours only when every cell they allow is past an edge.
C27_NeverStuckByCounters ==
  board.constraints.min_straight_line <= board.constraints.max_straight_line =>
    \A s \in Discovered :
      /\ ~(s.can_turn_in > 0 /\ s.must_turn_in = 0)
      /\ AllowedFacings(s) # {}
      /\ get_neighbours(board, s) = {} =>
           \A f \in AllowedFacings(s) : ~InBounds(board, Ahead(s, f))

\* With min_straight_line = max_straight_line > 0, a state at the end of its
\* run (it must turn, and may) is closed, and so is a state with no neighbours.
C27_Witness ==
  /\ board.constraints.min_straight_line = board.constraints.max_straight_line
  /\ \E s \in closed : s.must_turn_in = 0 /\ s.can_turn_in = 0
  /\ \E s \in closed : get_neighbours(board, s) = {}

\* C29: the costs of the entries popped over one run never decrease.
C29_PoppedCostsNonDecreasing ==
  [][Pops => step'.cost_to >= step.cost_to]_vars

\* After the seeded entries of cost 0 and other entries, an entry of cost
\* above 1 has been popped.
C29_Witness ==
  /\ pc = "loop"
  /\ step.cost_to > 1
  /\ Cardinality(closed) > 4

\* C30: a seeded initial state is accepted as the goal if and only if the
\* source equals the target and min_straight_line = 0, and then find_path
\* returns 0 at the first pop, with no state expanded; when the source equals
\* the target and min_straight_line > 0, a search that returns has left the
\* source and entered it again with can_turn_in = 0.
C30_SeedAcceptedIff ==
  /\ \A p \in SeededEntries :
       is_goal(p, goal) <=> (start = goal /\ board.constraints.min_straight_line = 0)
  /\ pc = "returned" /\ step \in SeededEntries /\ closed = {} =>
       start = goal /\ board.constraints.min_straight_line = 0
  /\ start = goal /\ board.constraints.min_straight_line = 0 =>
       /\ closed = {}
       /\ pc # "panicked"
       /\ pc = "returned" => result = 0 /\ step \in SeededEntries
  /\ start = goal /\ board.constraints.min_straight_line > 0 /\ pc = "returned" =>
       /\ closed # {}
       /\ step.state \notin SeededStates
       /\ <<step.state.row, step.state.col>> = start
       /\ step.state.can_turn_in = 0
       /\ \E r \in run_len[step.state] : r >= board.constraints.min_straight_line

\* With a minimum run, a search from a cell to itself has returned a positive
\* cost after closing other states.
C30_Witness ==
  /\ pc = "returned"
  /\ start = goal
  /\ board.constraints.min_straight_line > 0
  /\ result > 0
  /\ Cardinality(closed) > 4

\* The total costs, at most cap, of the sequences of legal transitions from a
\* seeded state that end in state s.
CostsTo(s, cap) == {q[2] : q \in {e \in PathEnds(board, start, cap) : e[1] = s}}

\* C28: the cost of a popped entry is the cost of a sequence of legal
\* transitions from a seeded state to its state; at the first pop of a state
\* (the state is not closed yet) it is the least such cost, so that a later
\* pop of the state never carries a smaller one.
C28_FirstPopIsMinimum ==
  [][Pops =>
       LET costs == CostsTo(step'.state, step'.cost_to)
       IN /\ step'.cost_to \in costs
          /\ step'.state \notin closed => step'.cost_to = MinOf(costs)]_vars

\* A state has been popped a second time, at a higher cost than a sequence of
\* legal transitions reaches it at.
C28_Witness ==
  /\ pc = "loop"
  /\ step.cost_to > 0
  /\ \E c \in CostsTo(step.state, step.cost_to) : c < step.cost_to

====
